---------------------------- MODULE Spec2Model ----------------------------
(***************************************************************************)
(* A model of vacuum.py: the nx1 room (class Environment), the reflex      *)
(* agent (class Vacuum_cleaner) with its run loop, and the module-level    *)
(* function pick_action.                                                   *)
(*                                                                         *)
(* Spec      the run of main(): Vacuum_cleaner(room).run() from            *)
(*           INITIAL_STATE, over every room of 1..MaxN cells.              *)
(* LiveSpec  the same run, with the loop of run() never stopping by itself *)
(*           (weak fairness of its step).                                  *)
(* StartSpec the run from any start position, with the same fairness.      *)
(* EnvSpec   direct calls of get_environment, update_environment and       *)
(*           is_clean with positions from a bounded set.                   *)
(* PickSpec  direct calls of pick_action with arguments from bounded sets. *)
(***************************************************************************)
EXTENDS Integers, Sequences, FiniteSets, TLC

(* Rooms have 1..MaxN cells. *)
MaxN == 4

(* The run loop has no tick limit; the model stops a run after MaxCost     *)
(* actions so that a run that would never halt has finitely many states.   *)
(* A run from INITIAL_STATE costs at most 2 * N - 1.                        *)
MaxCost == 3 * MaxN

VARIABLES
    environment,        \* self.environment: Dict[int, int]
    state,              \* self.state
    previous_state,     \* self.previous_state
    cost,               \* self.cost
    performance,        \* self.performance
    pc,                 \* where run() is: "running", "done", "crashed"; "idle" when run() is not called
    room,               \* the mapping the object was constructed from, as it was then
    log,                \* the actions executed so far, in order (the lines they print)
    call,               \* the last direct call and its arguments
    result              \* what that call returned or raised

vars == <<environment, state, previous_state, cost, performance, pc, room, log,
          call, result>>

agent == <<state, previous_state, cost, performance>>

----------------------------------------------------------------------------
(* Values *)

(* Python's None where a dirt flag is expected (percept['Left'], ['Right']). *)
NoneFlag == -1

(* Python's None where an action (a bound method) is expected. *)
None == "None"

ActionNames == {"move_left", "move_right", "suck"}

INITIAL_STATE == 0

Flags == {0, 1}

(* The rooms of n cells: dense keys 0..n-1, binary flags. *)
Rooms(n) == [0 .. n - 1 -> Flags]

AllRooms == UNION {Rooms(n) : n \in 1 .. MaxN}

----------------------------------------------------------------------------
(* class Environment *)

(* len(self.environment) *)
len(env) == Cardinality(DOMAIN env)

(* get_environment raises KeyError when one of the subscripts it evaluates *)
(* is not a key of the dict.                                               *)
get_environment_raises(env, st) ==
    \/ (st - 1 > 0 /\ st - 1 \notin DOMAIN env)
    \/ (st + 1 < len(env) /\ st + 1 \notin DOMAIN env)
    \/ st \notin DOMAIN env

(* A variant of get_environment whose right wall is one cell too early. *)
get_environment_short_right(env, st) ==
    [Left   |-> IF st - 1 > 0 THEN env[st - 1] ELSE NoneFlag,
     Right  |-> IF st + 1 < len(env) - 1 THEN env[st + 1] ELSE NoneFlag,
     Centre |-> env[st]]

(* A variant of get_environment that clamps the neighbours to the room. *)
get_environment_clamped(env, st) ==
    [Left   |-> env[IF st - 1 > 0 THEN st - 1 ELSE 0],
     Right  |-> env[IF st + 1 < len(env) THEN st + 1 ELSE len(env) - 1],
     Centre |-> env[st]]

(* get_environment, when it raises nothing. *)
get_environment(env, st) ==
    [Left   |-> IF st - 1 > 0 THEN env[st - 1] ELSE NoneFlag,
     Right  |-> IF st + 1 < len(env) THEN env[st + 1] ELSE NoneFlag,
     Centre |-> env[st]]

(* A variant of update_environment that flips the flag. *)
update_environment_toggles(env, st) ==
    [k \in (DOMAIN env) \cup {st} |->
        IF k = st THEN (IF st \in DOMAIN env THEN 1 - env[st] ELSE 0) ELSE env[k]]

(* A variant of update_environment that cleans the whole room. *)
update_environment_clears_all(env, st) ==
    [k \in (DOMAIN env) \cup {st} |-> 0]

(* A variant of update_environment that forgets the assignment. *)
update_environment_forgets(env, st) == env

(* update_environment: self.environment[state] = 0, a new key if absent. *)
update_environment(env, st) ==
    [k \in (DOMAIN env) \cup {st} |-> IF k = st THEN 0 ELSE env[k]]

(* A variant of is_clean that returns after looking at the first room. *)
is_clean_first_room(env) ==
    LET first == CHOOSE r \in DOMAIN env : \A q \in DOMAIN env : r <= q
    IN  env[first] # 1

is_clean(env) == \A r \in DOMAIN env : env[r] # 1

----------------------------------------------------------------------------
(* class Vacuum_cleaner: rules and candidate actions *)

(* A dict of actions is a sequence of entries in insertion order. *)
Entry(a, s) == [action |-> a, score |-> s]

(* actions[a] for a key a of the dict *)
Score(actions, a) ==
    LET i == CHOOSE j \in 1 .. Len(actions) : actions[j].action = a
    IN  actions[i].score

(* The cost and the performance get_actions gives each action. *)
ActionCost(a) == 1

(* A variant of ActionPerformance that gives suck the performance of a move. *)
ActionPerformance_flat(a) == -1

ActionPerformance(a) == IF a = "suck" THEN 1 ELSE -1

(* The entry get_actions adds for action a when its rule holds. *)
Offer(holds, a) ==
    IF holds THEN <<Entry(a, ActionPerformance(a) - ActionCost(a))>> ELSE <<>>

(* A variant of get_actions with the two moves wired to each other's rule. *)
get_actions_swapped(rule) ==
    Offer(rule["Move left?"], "move_right")
    \o Offer(rule["Move right?"], "move_left")
    \o Offer(rule["Suck?"], "suck")

get_actions(rule) ==
    Offer(rule["Move left?"], "move_left")
    \o Offer(rule["Move right?"], "move_right")
    \o Offer(rule["Suck?"], "suck")

agent_function(percept) ==
    get_actions(
        ("Move left?" :> (percept.Left # NoneFlag))
        @@ ("Move right?" :> (percept.Right # NoneFlag))
        @@ ("Suck?" :> (percept.Centre = 1)))

----------------------------------------------------------------------------
(* pick_action *)

RECURSIVE pick_loop(_, _, _, _)
pick_loop(actions, avoid, i, action_to_pick) ==
    IF i > Len(actions) THEN action_to_pick
    ELSE LET action == actions[i].action
         IN  IF action_to_pick = None
             THEN IF action # avoid
                  THEN pick_loop(actions, avoid, i + 1, action)
                  ELSE pick_loop(actions, avoid, i + 1, action_to_pick)
             ELSE IF Score(actions, action) > Score(actions, action_to_pick)
                     /\ action # avoid
                  THEN pick_loop(actions, avoid, i + 1, action)
                  ELSE pick_loop(actions, avoid, i + 1, action_to_pick)

(* A variant of the loop of pick_action in which a later action with an    *)
(* equal score replaces the one picked (>= for >).                         *)
RECURSIVE pick_loop_ge(_, _, _, _)
pick_loop_ge(actions, avoid, i, action_to_pick) ==
    IF i > Len(actions) THEN action_to_pick
    ELSE LET action == actions[i].action
         IN  IF action_to_pick = None
             THEN IF action # avoid
                  THEN pick_loop_ge(actions, avoid, i + 1, action)
                  ELSE pick_loop_ge(actions, avoid, i + 1, action_to_pick)
             ELSE IF Score(actions, action) >= Score(actions, action_to_pick)
                     /\ action # avoid
                  THEN pick_loop_ge(actions, avoid, i + 1, action)
                  ELSE pick_loop_ge(actions, avoid, i + 1, action_to_pick)

pick_action_last_tie(actions, avoid) == pick_loop_ge(actions, avoid, 1, None)

(* A variant of pick_action that does not look at avoid. *)
pick_action_ignores_avoid(actions, avoid) == pick_loop(actions, None, 1, None)

(* A variant of pick_action that returns the first action of the dict. *)
pick_action_first(actions, avoid) ==
    IF Len(actions) = 0 THEN None ELSE actions[1].action

pick_action(actions, avoid) == pick_loop(actions, avoid, 1, None)

----------------------------------------------------------------------------
(* class Vacuum_cleaner: the actuators *)

move_left ==
    /\ previous_state' = state
    /\ cost' = cost + 1
    /\ performance' = performance - 1
    /\ state' = state - 1
    /\ log' = Append(log, "move_left")
    /\ UNCHANGED environment

(* A variant of move_right that charges the move twice. *)
move_right_double_cost ==
    /\ previous_state' = state
    /\ cost' = cost + 2
    /\ performance' = performance - 1
    /\ state' = state + 1
    /\ log' = Append(log, "move_right")
    /\ UNCHANGED environment

move_right ==
    /\ previous_state' = state
    /\ cost' = cost + 1
    /\ performance' = performance - 1
    /\ state' = state + 1
    /\ log' = Append(log, "move_right")
    /\ UNCHANGED environment

(* A variant of suck that records the position as previous, as a move does. *)
suck_records_previous ==
    /\ previous_state' = state
    /\ cost' = cost + 1
    /\ performance' = performance - 1
    /\ state' = state
    /\ environment' = update_environment(environment, state)
    /\ log' = Append(log, "suck")

(* A variant of suck that pays the performance get_actions promises. *)
suck_rewarded ==
    /\ cost' = cost + 1
    /\ performance' = performance + 1
    /\ state' = state
    /\ environment' = update_environment(environment, state)
    /\ log' = Append(log, "suck")
    /\ UNCHANGED previous_state

suck ==
    /\ cost' = cost + 1
    /\ performance' = performance - 1
    /\ state' = state
    /\ environment' = update_environment(environment, state)
    /\ log' = Append(log, "suck")
    /\ UNCHANGED previous_state

----------------------------------------------------------------------------
(* Vacuum_cleaner.run *)

(* A variant of Avoid with the two directions exchanged. *)
Avoid_exchanged(actions, st, prev) ==
    IF Len(actions) > 1
    THEN IF prev = st - 1 THEN "move_right"
         ELSE IF prev = st + 1 THEN "move_left"
         ELSE None
    ELSE None

(* The action run() avoids, from the previous state (lines 99-109). *)
Avoid(actions, st, prev) ==
    IF Len(actions) > 1
    THEN IF prev = st - 1 THEN "move_left"
         ELSE IF prev = st + 1 THEN "move_right"
         ELSE None
    ELSE None

(* The action one iteration of run() selects, None when there is none. *)
Selected(env, st, prev) ==
    LET actions == agent_function(get_environment(env, st))
    IN  pick_action(actions, Avoid(actions, st, prev))

(* The loop finds the room clean, prints the total cost and returns. *)
Halt ==
    /\ pc = "running"
    /\ is_clean(environment)
    /\ pc' = "done"
    /\ UNCHANGED <<environment, agent, room, log, call, result>>

(* One iteration of the loop on a room that is not clean: sense, select,   *)
(* act.  A KeyError of get_environment or calling None ends run().          *)
Tick ==
    /\ pc = "running"
    /\ ~is_clean(environment)
    /\ cost < MaxCost
    /\ IF get_environment_raises(environment, state)
       THEN pc' = "crashed" /\ UNCHANGED <<environment, agent, log>>
       ELSE LET action == Selected(environment, state, previous_state)
            IN  CASE action = "move_left"  -> move_left /\ UNCHANGED pc
                  [] action = "move_right" -> move_right /\ UNCHANGED pc
                  [] action = "suck"       -> suck /\ UNCHANGED pc
                  [] OTHER -> pc' = "crashed" /\ UNCHANGED <<environment, agent, log>>
    /\ UNCHANGED <<room, call, result>>

NoCall == [op |-> "none"]

NoResult == [raised |-> None]

(* Vacuum_cleaner(room), then run(). *)
Init ==
    /\ room \in AllRooms
    /\ environment = room
    /\ state = INITIAL_STATE
    /\ previous_state = 0
    /\ cost = 0
    /\ performance = 0
    /\ pc = "running"
    /\ log = <<>>
    /\ call = NoCall
    /\ result = NoResult

Next == Halt \/ Tick

Spec == Init /\ [][Next]_vars

(* run() is a loop in a single thread: it keeps iterating until it returns. *)
LiveSpec == Init /\ [][Next]_vars /\ WF_vars(Next)

(* Vacuum_cleaner(room) with INITIAL_STATE set to any cell of the room,    *)
(* then run().  __init__ sets previous_state to 0; a caller that keeps it   *)
(* equal to the position before the first move sets it to the start.       *)
StartInit ==
    /\ room \in AllRooms
    /\ environment = room
    /\ state \in DOMAIN room
    /\ previous_state \in {0, state}
    /\ cost = 0
    /\ performance = 0
    /\ pc = "running"
    /\ log = <<>>
    /\ call = NoCall
    /\ result = NoResult

(* The run from any start, the loop never stopping by itself. *)
StartSpec == StartInit /\ [][Next]_vars /\ WF_vars(Next)

----------------------------------------------------------------------------
(* EnvSpec, PickSpec: the methods of Environment and pick_action, called   *)
(* directly on an object constructed from any room.                        *)

(* The positions a direct call passes: every cell of the room it was built *)
(* from, and positions off either end.                                     *)
Positions == -1 .. Cardinality(DOMAIN room) + 1

(* The scores a dict of actions passed to pick_action may hold. *)
Scores == {-2, 0}

(* The dicts of actions passed to pick_action: up to three distinct        *)
(* actions in any insertion order, each with a score.                      *)
ActionDicts ==
    UNION {{d \in [1 .. k -> [action : ActionNames, score : Scores]] :
              \A i, j \in 1 .. k : i # j => d[i].action # d[j].action}
           : k \in 0 .. 3}

CallGetEnvironment ==
    /\ pc = "idle"
    /\ \E st \in Positions :
          /\ call' = [op |-> "get_environment", state |-> st]
          /\ result' = IF get_environment_raises(environment, st)
                       THEN [raised |-> "KeyError"]
                       ELSE [raised |-> None,
                             value |-> get_environment(environment, st)]
    /\ UNCHANGED <<environment, agent, pc, room, log>>

CallUpdateEnvironment ==
    /\ pc = "idle"
    /\ \E st \in Positions :
          /\ call' = [op |-> "update_environment", state |-> st]
          /\ environment' = update_environment(environment, st)
          /\ result' = [raised |-> None, value |-> environment']
    /\ UNCHANGED <<agent, pc, room, log>>

CallIsClean ==
    /\ pc = "idle"
    /\ call' = [op |-> "is_clean"]
    /\ result' = [raised |-> None, value |-> is_clean(environment)]
    /\ UNCHANGED <<environment, agent, pc, room, log>>

CallPickAction ==
    /\ pc = "idle"
    /\ \E actions \in ActionDicts, avoid \in ActionNames \cup {None} :
          /\ call' = [op |-> "pick_action", actions |-> actions, avoid |-> avoid]
          /\ result' = [raised |-> None, value |-> pick_action(actions, avoid)]
    /\ UNCHANGED <<environment, agent, pc, room, log>>

(* Vacuum_cleaner(room), run() not called. *)
ApiInit ==
    /\ room \in AllRooms
    /\ environment = room
    /\ state = INITIAL_STATE
    /\ previous_state = 0
    /\ cost = 0
    /\ performance = 0
    /\ pc = "idle"
    /\ log = <<>>
    /\ call = NoCall
    /\ result = NoResult

EnvNext ==
    \/ CallGetEnvironment
    \/ CallUpdateEnvironment
    \/ CallIsClean

(* Any sequence of direct calls of the methods of Environment. *)
EnvSpec == ApiInit /\ [][EnvNext]_vars

PickNext == CallPickAction

(* Any sequence of direct calls of pick_action. *)
PickSpec == ApiInit /\ [][PickNext]_vars

----------------------------------------------------------------------------
(* Properties *)

(* Every cell's flag is 0. *)
AllClean(env) == \A k \in DOMAIN env : env[k] = 0

(* The keys are exactly 0 .. N-1. *)
Dense(env) == DOMAIN env = 0 .. len(env) - 1

(* The number of cells of the room the object was constructed from. *)
N == Cardinality(DOMAIN room)

(* The action executed last. *)
LastAction == log[Len(log)]

(* A step that executes an action. *)
Executes == Len(log') = Len(log) + 1

(* The candidates of the current iteration of run(). *)
Candidates == agent_function(get_environment(environment, state))

(* C1: for every room of N >= 1 cells and every assignment of dirt flags,  *)
(* a run started at position 0 with previous position 0 reaches DONE after *)
(* finitely many ticks.  (LiveSpec)                                        *)
C1_RunReachesDone == <>(pc = "done")

(* A run over a room of at least three cells, all dirty, has halted. *)
C1_Witness ==
    /\ pc = "done"
    /\ N >= 3
    /\ \A k \in DOMAIN room : room[k] = 1
    /\ cost = 2 * N - 1

(* C2: the loop enters DONE at a tick exactly when every cell's flag is 0: *)
(* it never halts while a cell is dirty, a tick that starts with the room  *)
(* fully clean executes no action (an initially clean room ends with cost  *)
(* 0), and in DONE nothing changes any more.                               *)
C2_DoneExactlyWhenClean ==
    /\ [](pc = "done" => AllClean(environment))
    /\ [](AllClean(room) => cost = 0 /\ log = <<>>)
    /\ [][/\ AllClean(environment) =>
                pc' = "done" /\ UNCHANGED <<environment, agent, log>>
          /\ ~AllClean(environment) => pc' # "done"
          /\ pc # "done"]_vars

(* The run halted after having executed actions. *)
C2_Witness ==
    /\ pc = "done"
    /\ AllClean(environment)
    /\ ~AllClean(room)
    /\ cost > 0

(* C3: for every room of N cells and every position p in [0, N), sense(p)  *)
(* returns centre = the flag at p, left = the flag at p - 1 when           *)
(* p - 1 >= 0 and absent otherwise, right = the flag at p + 1 when         *)
(* p + 1 < N and absent otherwise; at p = 1 the left component is the flag *)
(* of cell 0.  (EnvSpec)                                                   *)
C3_SenseNeighbours ==
    (/\ call.op = "get_environment"
     /\ Dense(environment)
     /\ call.state \in DOMAIN environment)
    => /\ result.raised = None
       /\ result.value =
            [Left   |-> IF call.state - 1 >= 0
                        THEN environment[call.state - 1] ELSE NoneFlag,
             Right  |-> IF call.state + 1 < len(environment)
                        THEN environment[call.state + 1] ELSE NoneFlag,
             Centre |-> environment[call.state]]

(* C4: in every reachable state of a run started at position 0 in which    *)
(* the room is not fully clean, the candidates derived from the current    *)
(* percept are not empty and the selection yields an action.               *)
C4_CandidatesNonEmpty ==
    (pc = "running" /\ ~AllClean(environment))
    => /\ ~get_environment_raises(environment, state)
       /\ Len(Candidates) > 0
       /\ Selected(environment, state, previous_state) \in ActionNames

(* The agent stands on a clean cell next to the left wall's neighbour,     *)
(* with dirt further right: one candidate only.                            *)
C4_Witness ==
    /\ pc = "running"
    /\ ~AllClean(environment)
    /\ state = 1
    /\ environment[state] = 0
    /\ Len(Candidates) = 1

(* C5: for every non-empty dict of candidates and every avoided action,    *)
(* pick_action returns one of the candidates; when the only candidate is   *)
(* the avoided action it returns that action, not None.  (PickSpec)        *)
C5_PickReturnsCandidate ==
    (call.op = "pick_action" /\ Len(call.actions) > 0)
    => result.value \in {call.actions[i].action : i \in 1 .. Len(call.actions)}

(* C6: in every reachable state of a run on a room of N cells,             *)
(* 0 <= position < N, and the cells are those of the room.                 *)
C6_PositionInRange ==
    /\ state \in 0 .. N - 1
    /\ DOMAIN environment = 0 .. N - 1

(* The agent has walked to the last cell of a room of at least three. *)
C6_Witness ==
    /\ N >= 3
    /\ state = N - 1
    /\ previous_state = N - 2
    /\ Len(log) >= 2

(* C7: each executed action changes cumulative_performance by the          *)
(* performance get_actions gives it: -1 for move_left and move_right, +1   *)
(* for suck.                                                               *)
C7_PerformancePayoff ==
    [][Executes =>
         performance' = performance + ActionPerformance(log'[Len(log')])]_vars

(* C8: cumulative_cost starts at 0, grows by exactly 1 with every executed *)
(* action and never otherwise, so it is always the number of actions       *)
(* executed so far, also when the run reports it at DONE.                  *)
C8_CostCountsActions ==
    /\ cost = 0
    /\ [](cost = Len(log))
    /\ [][IF Executes THEN cost' = cost + 1 ELSE cost' = cost]_vars

(* A halted run that moved and sucked. *)
C8_Witness ==
    /\ pc = "done"
    /\ cost = Len(log)
    /\ \E i, j \in 1 .. Len(log) : log[i] = "move_right" /\ log[j] = "suck"

(* C9: get_environment and update_environment, called with a position      *)
(* outside [0, N), fail with an out-of-range error and leave the room      *)
(* unchanged: no flag changes and the keys stay exactly [0, N).  (EnvSpec) *)
C9_OutOfRangeFails ==
    [][(/\ call'.op \in {"get_environment", "update_environment"}
        /\ Dense(environment)
        /\ call'.state \notin DOMAIN environment)
       => /\ result'.raised = "KeyError"
          /\ environment' = environment]_vars

(* The room of the end-to-end scenario: {0: 0, 1: 0, 2: 1}. *)
Room10 == (0 :> 0) @@ (1 :> 0) @@ (2 :> 1)

(* The stages of the scenario's run. *)
Stage10(l, st, c, env, pcs) ==
    log = l /\ state = st /\ cost = c /\ environment = env /\ pc \in pcs

(* C10: on room {0: 0, 1: 0, 2: 1} from position 0 the run executes        *)
(* exactly move_right (position 1, cost 1), move_right (position 2, cost   *)
(* 2), suck (cell 2 clean, cost 3), then finds the room clean and halts    *)
(* with total cost 3.  (LiveSpec)                                          *)
C10_Scenario ==
    /\ [](room = Room10 =>
            \/ Stage10(<<>>, 0, 0, Room10, {"running"})
            \/ Stage10(<<"move_right">>, 1, 1, Room10, {"running"})
            \/ Stage10(<<"move_right", "move_right">>, 2, 2, Room10, {"running"})
            \/ Stage10(<<"move_right", "move_right", "suck">>, 2, 3,
                       [k \in 0 .. 2 |-> 0], {"running", "done"}))
    /\ (room = Room10) ~> (pc = "done" /\ cost = 3)

(* The scenario's run has halted. *)
C10_Witness ==
    /\ room = Room10
    /\ pc = "done"
    /\ cost = 3
    /\ log = <<"move_right", "move_right", "suck">>

----------------------------------------------------------------------------
(* The run so far, replayed from the log *)

(* How an action changes the position. *)
Delta(a) == IF a = "move_left" THEN -1 ELSE IF a = "move_right" THEN 1 ELSE 0

(* The sum of the position changes of actions i .. Len(log). *)
RECURSIVE SumDelta(_)
SumDelta(i) == IF i > Len(log) THEN 0 ELSE Delta(log[i]) + SumDelta(i + 1)

(* The position after the first i actions; PositionAfter(0) is the start. *)
PositionAfter(i) == state - SumDelta(i + 1)

(* The room after the first i actions. *)
RoomAfter(i) ==
    LET sucked == {PositionAfter(k) : k \in {j \in 1 .. i : log[j] = "suck"}}
    IN  [k \in DOMAIN room |-> IF k \in sucked THEN 0 ELSE room[k]]

(* The index of the last move among the first i actions, 0 if there is none. *)
LastMove(i) ==
    LET moves == {j \in 1 .. i : log[j] # "suck"}
    IN  IF moves = {} THEN 0 ELSE CHOOSE j \in moves : \A k \in moves : k <= j

(* What the next selection depends on after i actions, the last move known. *)
ConfigAfter(i) ==
    <<PositionAfter(i), PositionAfter(LastMove(i) - 1), RoomAfter(i)>>

(* The agent is, with dirt left in the room, where it already was with the *)
(* same previous position and the same room: from there it repeats itself. *)
Revisits ==
    \E i, j \in 1 .. Len(log) :
        /\ i < j
        /\ LastMove(i) > 0
        /\ ConfigAfter(i) = ConfigAfter(j)
        /\ ~AllClean(RoomAfter(i))

(* The room of the oscillation scenario: {0: 1, 1: 0, 2: 1}, start at 1. *)
Room11 == (0 :> 1) @@ (1 :> 0) @@ (2 :> 1)

Scenario11 == room = Room11 /\ PositionAfter(0) = 1

(* C11: on room {0: 1, 1: 0, 2: 1} with the agent started at position 1    *)
(* (previous position 0 or 1) the agent does not keep moving back and      *)
(* forth while a dirty cell remains: it never comes back to a position     *)
(* with the same previous position and the same dirty room, both dirty     *)
(* cells are sucked and the run reaches DONE.  (StartSpec)                 *)
C11_NoOscillation ==
    /\ [](Scenario11 => ~Revisits)
    /\ Scenario11 ~> (pc = "done" /\ AllClean(environment))

(* C12: for every room and every position p in [0, N), after clean(p) the  *)
(* centre flag sensed at p is 0, the flag of every other cell is unchanged *)
(* and no cell is added, and clean(p) once more gives the same room.       *)
(* (EnvSpec)                                                               *)
C12_CleanOneCell ==
    [][(call'.op = "update_environment" /\ call'.state \in DOMAIN environment)
       => LET p == call'.state
          IN  /\ result'.raised = None
              /\ DOMAIN environment' = DOMAIN environment
              /\ environment'[p] = 0
              /\ ~get_environment_raises(environment', p)
                    => get_environment(environment', p).Centre = 0
              /\ \A k \in DOMAIN environment \ {p} :
                    environment'[k] = environment[k]
              /\ update_environment(environment', p) = environment']_vars

(* A dirty cell of a dense room was cleaned and another is still dirty. *)
C12_Witness ==
    /\ call.op = "update_environment"
    /\ Dense(environment)
    /\ DOMAIN environment = DOMAIN room
    /\ call.state \in DOMAIN room
    /\ room[call.state] = 1
    /\ environment[call.state] = 0
    /\ \E k \in DOMAIN environment : environment[k] = 1

(* C13: for every room of N >= 1 cells the percept sensed at position 0    *)
(* has left absent, the percept sensed at position N - 1 has right absent, *)
(* and for N = 1 the percept at position 0 has both absent.  (EnvSpec)     *)
C13_Walls ==
    (/\ call.op = "get_environment"
     /\ Dense(environment)
     /\ call.state \in DOMAIN environment)
    => /\ result.raised = None
       /\ call.state = 0 => result.value.Left = NoneFlag
       /\ call.state = len(environment) - 1 => result.value.Right = NoneFlag

(* The last cell of a room of at least three cells was sensed: no right,   *)
(* and the left neighbour's flag.                                          *)
C13_Witness ==
    /\ call.op = "get_environment"
    /\ Dense(environment)
    /\ len(environment) >= 3
    /\ call.state = len(environment) - 1
    /\ result.raised = None
    /\ result.value.Right = NoneFlag
    /\ result.value.Left = environment[call.state - 1]

(* The place of an action in the order get_actions derives them in. *)
Rank(a) == IF a = "move_left" THEN 1 ELSE IF a = "move_right" THEN 2 ELSE 3

(* The dict holds its actions in the order move_left, move_right, suck. *)
InDerivationOrder(actions) ==
    \A i, j \in 1 .. Len(actions) :
        i < j => Rank(actions[i].action) < Rank(actions[j].action)

(* The candidates that are not the avoided action. *)
NotAvoided(actions, avoid) ==
    {i \in 1 .. Len(actions) : actions[i].action # avoid}

(* The non-avoided candidates with the highest score among them. *)
Best(actions, avoid) ==
    {i \in NotAvoided(actions, avoid) :
        \A j \in NotAvoided(actions, avoid) : actions[j].score <= actions[i].score}

(* C14: for every candidate set with at least one non-avoided action,      *)
(* pick_action returns the non-avoided candidate with the highest score    *)
(* and, among those tied at that score, the first in the order move_left,  *)
(* move_right, suck: the result is fixed by the candidates, their scores   *)
(* and the avoided action.  (PickSpec)                                     *)
C14_PickBestFirst ==
    (/\ call.op = "pick_action"
     /\ InDerivationOrder(call.actions)
     /\ NotAvoided(call.actions, call.avoid) # {})
    => \E i \in Best(call.actions, call.avoid) :
          /\ result.value = call.actions[i].action
          /\ \A j \in Best(call.actions, call.avoid) :
                Rank(call.actions[i].action) <= Rank(call.actions[j].action)

(* Three candidates, move_left avoided, the other two tied at the top:     *)
(* move_right is returned.                                                 *)
C14_Witness ==
    /\ call.op = "pick_action"
    /\ InDerivationOrder(call.actions)
    /\ Len(call.actions) = 3
    /\ call.avoid = "move_left"
    /\ call.actions[1].score = 0
    /\ call.actions[2].score = call.actions[3].score
    /\ result.value = "move_right"

(* The action the step executes. *)
Executed == log'[Len(log')]

(* C15: in every tick whose candidate set has more than one entry the      *)
(* executed action is not move_left when previous_position = position - 1  *)
(* and not move_right when previous_position = position + 1; in every     *)
(* tick whose candidate set has exactly one entry that entry is executed,  *)
(* whatever previous_position is.  (StartSpec)                             *)
C15_AvoidGoingBack ==
    [][Executes =>
         /\ Len(Candidates) > 1 =>
               /\ previous_state = state - 1 => Executed # "move_left"
               /\ previous_state = state + 1 => Executed # "move_right"
         /\ Len(Candidates) = 1 => Executed = Candidates[1].action]_vars

(* The agent came to a cell from the right, could move both ways there and *)
(* went on to the left.                                                    *)
C15_Witness ==
    /\ Len(log) >= 2
    /\ log[Len(log) - 1] = "move_left"
    /\ LastAction = "move_left"
    /\ state >= 1
    /\ state + 2 <= N - 1
    /\ previous_state = state + 1

(* The actions executed so far that are moves. *)
Moves == {i \in 1 .. Len(log) : log[i] # "suck"}

(* C16: previous_position equals position until the first move; after any  *)
(* move it is the position held just before the most recent move, so it    *)
(* differs from position by exactly 1; suck leaves it unchanged.           *)
C16_PreviousPosition ==
    /\ [](Moves = {} => previous_state = state)
    /\ [](Moves # {} =>
            /\ previous_state = PositionAfter(LastMove(Len(log)) - 1)
            /\ previous_state - state \in {-1, 1})
    /\ [][Executes /\ Executed = "suck" => previous_state' = previous_state]_vars

(* The agent moved and then sucked: the previous position is still the     *)
(* cell it came from.                                                      *)
C16_Witness ==
    /\ Len(log) >= 2
    /\ LastAction = "suck"
    /\ log[Len(log) - 1] = "move_right"
    /\ previous_state = state - 1

(* C17: suck adds 1 to cumulative_cost, subtracts 1 from                   *)
(* cumulative_performance, sets the flag of the cell at the agent's        *)
(* position to 0 and leaves position, previous_position and the flag of    *)
(* every other cell unchanged.                                             *)
C17_SuckEffect ==
    [][Executes /\ Executed = "suck" =>
         /\ cost' = cost + 1
         /\ performance' = performance - 1
         /\ state' = state
         /\ previous_state' = previous_state
         /\ DOMAIN environment' = DOMAIN environment
         /\ environment'[state] = 0
         /\ \A k \in DOMAIN environment \ {state} :
               environment'[k] = environment[k]]_vars

(* A dirty cell was just sucked and another cell is still dirty. *)
C17_Witness ==
    /\ log # <<>>
    /\ LastAction = "suck"
    /\ room[state] = 1
    /\ environment[state] = 0
    /\ ~AllClean(environment)
    /\ performance = 0 - cost

(* C18: in every tick in which the cell at the agent's position is dirty   *)
(* the executed action is suck, whatever moves are legal and whatever is   *)
(* avoided; the agent never leaves a dirty cell it stands on.  (StartSpec) *)
C18_SuckWhenDirty ==
    [][(pc = "running" /\ state \in DOMAIN environment /\ environment[state] = 1)
       => /\ Executes
          /\ Executed = "suck"
          /\ state' = state]_vars

(* A dirty cell with both moves legal and move_left avoided was sucked. *)
C18_Witness ==
    /\ log # <<>>
    /\ LastAction = "suck"
    /\ state - 1 > 0
    /\ state + 1 < N
    /\ previous_state = state - 1
    /\ room[state] = 1
    /\ environment[state] = 0

(* C19: in every run started at position 0 move_left is never executed,    *)
(* the position never decreases, and every cell with an index lower than   *)
(* the position is clean.                                                  *)
C19_SweepsRight ==
    /\ [](\A i \in 1 .. Len(log) : log[i] # "move_left")
    /\ [](\A k \in DOMAIN environment : k < state => environment[k] = 0)
    /\ [][state' >= state]_vars

(* The agent reached the last cell of a room of at least three, which is   *)
(* dirty, the left neighbour being offered as a move.                      *)
C19_Witness ==
    /\ N >= 3
    /\ state = N - 1
    /\ environment[state] = 1
    /\ \E k \in 0 .. state - 1 : room[k] = 1
    /\ Len(Candidates) = 2

(* The cells that were dirty at construction. *)
InitiallyDirty == {k \in DOMAIN room : room[k] = 1}

(* The index of the rightmost of them. *)
Rightmost == CHOOSE k \in InitiallyDirty : \A j \in InitiallyDirty : j <= k

(* C20: the total cost reported when a run started at position 0 reaches   *)
(* DONE is 0 if no cell was dirty, and otherwise the index of the          *)
(* rightmost initially dirty cell plus the number of initially dirty       *)
(* cells; the final position is that index.                                *)
C20_TotalCost ==
    pc = "done" =>
        IF InitiallyDirty = {}
        THEN cost = 0
        ELSE /\ cost = Rightmost + Cardinality(InitiallyDirty)
             /\ state = Rightmost

(* A run over a room with several dirty cells, the last cell clean, has    *)
(* halted short of the last cell.                                          *)
C20_Witness ==
    /\ pc = "done"
    /\ Cardinality(InitiallyDirty) >= 2
    /\ Rightmost < N - 1
    /\ Rightmost > 0
    /\ cost = Rightmost + Cardinality(InitiallyDirty)
    /\ state = Rightmost

=============================================================================
